---- MODULE Spec2Model ----
(***************************************************************************)
(* Model of Kalman/kalman_factory_filter.h: the include-time factory that  *)
(* turns the three defines KALMAN_NAME, KALMAN_NUM_STATES and              *)
(* KALMAN_NUM_INPUTS into statically allocated buffers, a kalman_t         *)
(* structure and a parameterless initialization function.                  *)
(*                                                                         *)
(* The state machine follows one translation unit: the user's #define      *)
(* directives, the inclusion of the header (input checks, then the         *)
(* declarations), the cleanup include, and finally the built program       *)
(* calling the generated initializers and writing through the matrices.    *)
(* Identifiers are strings, token pasting is string concatenation.         *)
(***************************************************************************)
EXTENDS Integers, Sequences, FiniteSets, TLC

(* ------------------------------ bounds --------------------------------- *)

\* Largest value given to KALMAN_NUM_STATES / KALMAN_NUM_INPUTS.
MaxDim == 2

\* Largest number of inclusions of the header in the translation unit.
MaxInstances == 2

\* Largest number of element writes the running program performs.
MaxWrites == 1

\* Values the user may give KALMAN_NAME.  "a_init" is a valid C identifier
\* that embeds the joiner "_" used by the name macros.
Names == {"a", "b", "a_init"}

\* Values the user may give the two dimension defines (invalid ones included).
Dims == (0 - 1) .. MaxDim

\* The matrices of the filter.
Elements == {"A", "P", "x", "B", "Q", "u"}

(* ------------------------------- state --------------------------------- *)

VARIABLES
    KALMAN_NAME,        \* value of the define (empty while undefined)
    KALMAN_NUM_STATES,  \* value of the define (0 while undefined)
    KALMAN_NUM_INPUTS,  \* value of the define (0 while undefined)
    defined,            \* the defines currently set
    pasting,            \* what the preprocessor does with an invalid ## result
    pc,                 \* "source", "validated", "halted" or "running"
    unit,               \* what the inclusions emitted so far, in order
    memory,             \* run time: buffer identifier -> its elements
    filters,            \* run time: structure identifier -> kalman_t value
    ub,                 \* run time: a write past the end of a buffer happened
    writes              \* run time: number of element writes performed

vars == <<KALMAN_NAME, KALMAN_NUM_STATES, KALMAN_NUM_INPUTS, defined, pasting,
          pc, unit, memory, filters, ub, writes>>

(* ----------------------- Check for inputs (64-78) ---------------------- *)

\* No #error of the input checks fires.
CheckForInputs ==
    /\ "KALMAN_NAME" \in defined
    /\ "KALMAN_NUM_STATES" \in defined
    /\ ~(KALMAN_NUM_STATES <= 0)
    /\ "KALMAN_NUM_INPUTS" \in defined
    /\ ~(KALMAN_NUM_INPUTS < 0)

(* ---------------------- Prepare dimensions (84-100) -------------------- *)

__KALMAN_A_ROWS == KALMAN_NUM_STATES
__KALMAN_A_COLS == KALMAN_NUM_STATES

__KALMAN_P_ROWS == KALMAN_NUM_STATES
__KALMAN_P_COLS == KALMAN_NUM_STATES

__KALMAN_x_ROWS == KALMAN_NUM_STATES
__KALMAN_x_COLS == 1

__KALMAN_B_ROWS == KALMAN_NUM_STATES
__KALMAN_B_COLS == KALMAN_NUM_INPUTS

__KALMAN_u_ROWS == KALMAN_NUM_INPUTS
__KALMAN_u_COLS == 1

__KALMAN_Q_ROWS == KALMAN_NUM_INPUTS
__KALMAN_Q_COLS == KALMAN_NUM_INPUTS

(* ----------------------- Name helper macros (113-125) ------------------ *)

\* x ## y
__CONCAT(x, y) == x \o y

KALMAN_FILTER_BASENAME_HELPER(name) == __CONCAT("kalman_filter_", name)

\* Faulty variant: the name pasted without the helper's level of expansion.
KALMAN_FILTER_BASENAME_Unexpanded == __CONCAT("kalman_filter_", "KALMAN_NAME")

\* The argument KALMAN_NAME is macro-expanded before the helper pastes it.
KALMAN_FILTER_BASENAME == KALMAN_FILTER_BASENAME_HELPER(KALMAN_NAME)

\* Faulty variant: the joiner left out.
KALMAN_BASENAME_HELPER_NoJoiner(basename) == __CONCAT(basename, "")

KALMAN_BASENAME_HELPER(basename) == __CONCAT(basename, "_")

\* KALMAN_BUFFER_NAME and KALMAN_FUNCTION_NAME paste the closing parenthesis
\* of KALMAN_BASENAME_HELPER(...) onto an identifier.  ")A" is no valid
\* preprocessing token, so the result of that ## is undefined (C11
\* 6.10.3.3p3): a preprocessor either expands the helper and joins the text,
\* giving the identifiers the header documents (lines 27-32), or diagnoses
\* the paste and the translation fails.
InvalidPasteDiagnosed == pasting = "diagnosed"

KALMAN_BUFFER_NAME(element) ==
    KALMAN_BASENAME_HELPER(KALMAN_FILTER_BASENAME) \o element \o "_buffer"

KALMAN_FUNCTION_NAME(name) ==
    KALMAN_BASENAME_HELPER(KALMAN_FILTER_BASENAME) \o name

KALMAN_STRUCT_NAME == KALMAN_FILTER_BASENAME

(* -------------------- Construct Kalman filter (135-191) ---------------- *)

\* ((matrix_data_t*)0), the binding of an absent buffer (166-172)
NullBuffer == "((matrix_data_t*)0)"

\* Faulty variant: the conditional taken for zero inputs too.
HasInputs_OrZero == KALMAN_NUM_INPUTS >= 0

\* #if KALMAN_NUM_INPUTS > 0 (148)
HasInputs == KALMAN_NUM_INPUTS > 0

__KALMAN_BUFFER_A == KALMAN_BUFFER_NAME("A")
__KALMAN_BUFFER_P == KALMAN_BUFFER_NAME("P")
__KALMAN_BUFFER_x == KALMAN_BUFFER_NAME("x")

__KALMAN_BUFFER_B == IF HasInputs THEN KALMAN_BUFFER_NAME("B") ELSE NullBuffer
__KALMAN_BUFFER_Q == IF HasInputs THEN KALMAN_BUFFER_NAME("Q") ELSE NullBuffer
__KALMAN_BUFFER_u == IF HasInputs THEN KALMAN_BUFFER_NAME("u") ELSE NullBuffer

\* static matrix_data_t id[len];
StaticBuffer(element, id, len) == [element |-> element, id |-> id, len |-> len]

\* The buffer declarations, in source order (140-161).
BufferDeclarations ==
    << StaticBuffer("A", __KALMAN_BUFFER_A, __KALMAN_A_ROWS * __KALMAN_A_COLS),
       StaticBuffer("P", __KALMAN_BUFFER_P, __KALMAN_P_ROWS * __KALMAN_P_COLS),
       StaticBuffer("x", __KALMAN_BUFFER_x, __KALMAN_x_ROWS * __KALMAN_x_COLS) >>
    \o
    IF HasInputs
    THEN << StaticBuffer("B", __KALMAN_BUFFER_B, __KALMAN_B_ROWS * __KALMAN_B_COLS),
            StaticBuffer("Q", __KALMAN_BUFFER_Q, __KALMAN_Q_ROWS * __KALMAN_Q_COLS),
            StaticBuffer("u", __KALMAN_BUFFER_u, __KALMAN_x_ROWS * __KALMAN_u_COLS) >>
    ELSE << >>

\* Faulty variant: the P and Q buffers passed in each other's position.
InitCallArguments_PQSwapped ==
    << KALMAN_STRUCT_NAME, KALMAN_NUM_STATES, KALMAN_NUM_INPUTS,
       __KALMAN_BUFFER_A, __KALMAN_BUFFER_x, __KALMAN_BUFFER_B,
       __KALMAN_BUFFER_u, __KALMAN_BUFFER_Q, __KALMAN_BUFFER_P >>

\* Faulty variant: the A buffer passed for the state vector as well.
InitCallArguments_xOnA ==
    << KALMAN_STRUCT_NAME, KALMAN_NUM_STATES, KALMAN_NUM_INPUTS,
       __KALMAN_BUFFER_A, __KALMAN_BUFFER_A, __KALMAN_BUFFER_B,
       __KALMAN_BUFFER_u, __KALMAN_BUFFER_P, __KALMAN_BUFFER_Q >>

\* The argument list of the one call in the initializer's body (190):
\* &struct, states, inputs, A, x, B, u, P, Q.
InitCallArguments ==
    << KALMAN_STRUCT_NAME, KALMAN_NUM_STATES, KALMAN_NUM_INPUTS,
       __KALMAN_BUFFER_A, __KALMAN_BUFFER_x, __KALMAN_BUFFER_B,
       __KALMAN_BUFFER_u, __KALMAN_BUFFER_P, __KALMAN_BUFFER_Q >>

\* STATIC_INLINE KALMAN_FUNCTION_NAME(init)() { kalman_filter_initialize(...); }
InitFunction ==
    [ id     |-> KALMAN_FUNCTION_NAME("init"),
      params |-> << >>,
      body   |-> << [callee |-> "kalman_filter_initialize",
                     args   |-> InitCallArguments] >> ]

\* Everything one inclusion emits, with the defines it was emitted under.
Instance ==
    [ name      |-> KALMAN_NAME,
      numStates |-> KALMAN_NUM_STATES,
      numInputs |-> KALMAN_NUM_INPUTS,
      buffers   |-> BufferDeclarations,
      struct    |-> KALMAN_STRUCT_NAME,
      init      |-> InitFunction ]

(* ------------------------- translation and run ------------------------- *)

\* The identifiers one inclusion declares: its buffers, structure, function.
DeclaredIdentifiers(inst) ==
    { inst.buffers[i].id : i \in DOMAIN inst.buffers } \cup {inst.struct, inst.init.id}

\* The declarations are definitions of static objects and of a function: the
\* unit translates only when no identifier is declared a second time, by the
\* same inclusion or by another one.
Translatable ==
    /\ \A k \in 1 .. Len(unit) :
            Cardinality(DeclaredIdentifiers(unit[k])) = Len(unit[k].buffers) + 2
    /\ \A k, l \in 1 .. Len(unit) :
            k < l => DeclaredIdentifiers(unit[k]) \cap DeclaredIdentifiers(unit[l]) = {}

\* All buffer declarations of the unit.
StaticBuffers ==
    UNION { { unit[k].buffers[i] : i \in DOMAIN unit[k].buffers } : k \in 1 .. Len(unit) }

\* A matrix of the filter structure: its dimensions and its data pointer.
Matrix(rows, cols, data) == [rows |-> rows, cols |-> cols, data |-> data]

\* static kalman_t KALMAN_STRUCT_NAME; -- zero-initialised static storage (181)
ZeroFilter ==
    [ initialized |-> FALSE, numStates |-> 0, numInputs |-> 0,
      A |-> Matrix(0, 0, NullBuffer), x |-> Matrix(0, 0, NullBuffer),
      B |-> Matrix(0, 0, NullBuffer), u |-> Matrix(0, 0, NullBuffer),
      P |-> Matrix(0, 0, NullBuffer), Q |-> Matrix(0, 0, NullBuffer) ]

\* The external routine the initializer delegates to: records the dimensions
\* and wires each buffer into the matrix of its shape.
kalman_filter_initialize(num_states, num_inputs, A, x, B, u, P, Q) ==
    [ initialized |-> TRUE, numStates |-> num_states, numInputs |-> num_inputs,
      A |-> Matrix(num_states, num_states, A),
      x |-> Matrix(num_states, 1, x),
      B |-> Matrix(num_states, num_inputs, B),
      u |-> Matrix(num_inputs, 1, u),
      P |-> Matrix(num_states, num_states, P),
      Q |-> Matrix(num_inputs, num_inputs, Q) ]

(* ------------------------------ actions -------------------------------- *)

Init ==
    /\ KALMAN_NAME = ""
    /\ KALMAN_NUM_STATES = 0
    /\ KALMAN_NUM_INPUTS = 0
    /\ defined = {}
    /\ pasting \in {"joined", "diagnosed"}
    /\ pc = "source"
    /\ unit = << >>
    /\ memory = << >>
    /\ filters = << >>
    /\ ub = FALSE
    /\ writes = 0

\* #define KALMAN_NAME name
DefineName(name) ==
    /\ pc = "source"
    /\ Len(unit) < MaxInstances
    /\ "KALMAN_NAME" \notin defined
    /\ KALMAN_NAME' = name
    /\ defined' = defined \cup {"KALMAN_NAME"}
    /\ UNCHANGED <<KALMAN_NUM_STATES, KALMAN_NUM_INPUTS, pasting, pc, unit,
                   memory, filters, ub, writes>>

\* #define KALMAN_NUM_STATES n
DefineNumStates(n) ==
    /\ pc = "source"
    /\ Len(unit) < MaxInstances
    /\ "KALMAN_NUM_STATES" \notin defined
    /\ KALMAN_NUM_STATES' = n
    /\ defined' = defined \cup {"KALMAN_NUM_STATES"}
    /\ UNCHANGED <<KALMAN_NAME, KALMAN_NUM_INPUTS, pasting, pc, unit,
                   memory, filters, ub, writes>>

\* #define KALMAN_NUM_INPUTS n
DefineNumInputs(n) ==
    /\ pc = "source"
    /\ Len(unit) < MaxInstances
    /\ "KALMAN_NUM_INPUTS" \notin defined
    /\ KALMAN_NUM_INPUTS' = n
    /\ defined' = defined \cup {"KALMAN_NUM_INPUTS"}
    /\ UNCHANGED <<KALMAN_NAME, KALMAN_NUM_STATES, pasting, pc, unit,
                   memory, filters, ub, writes>>

\* #include "kalman_factory_filter.h", first part: the input checks.  An
\* #error halts the translation.
CheckInputs ==
    /\ pc = "source"
    /\ Len(unit) < MaxInstances
    /\ pc' = IF CheckForInputs THEN "validated" ELSE "halted"
    /\ UNCHANGED <<KALMAN_NAME, KALMAN_NUM_STATES, KALMAN_NUM_INPUTS, defined,
                   pasting, unit, memory, filters, ub, writes>>

\* #include "kalman_factory_filter.h", second part: the declarations.
ConstructKalmanFilter ==
    /\ pc = "validated"
    /\ IF InvalidPasteDiagnosed
       THEN pc' = "halted" /\ unit' = unit
       ELSE pc' = "source" /\ unit' = Append(unit, Instance)
    /\ UNCHANGED <<KALMAN_NAME, KALMAN_NUM_STATES, KALMAN_NUM_INPUTS, defined,
                   pasting, memory, filters, ub, writes>>

\* #include "kalman_factory_cleanup.h": undefines the three parameters.
Cleanup ==
    /\ pc = "source"
    /\ defined # {}
    /\ KALMAN_NAME' = ""
    /\ KALMAN_NUM_STATES' = 0
    /\ KALMAN_NUM_INPUTS' = 0
    /\ defined' = {}
    /\ UNCHANGED <<pasting, pc, unit, memory, filters, ub, writes>>

\* End of the translation unit: the program is built and starts.  Static
\* storage is zero-initialised; the macros exist no more.
Build ==
    /\ pc = "source"
    /\ unit # << >>
    /\ Translatable
    /\ pc' = "running"
    /\ KALMAN_NAME' = ""
    /\ KALMAN_NUM_STATES' = 0
    /\ KALMAN_NUM_INPUTS' = 0
    /\ defined' = {}
    /\ memory' = [id \in {b.id : b \in StaticBuffers} |->
                    LET decl == CHOOSE b \in StaticBuffers : b.id = id
                    IN  [n \in 1 .. decl.len |-> 0]]
    /\ filters' = [id \in {unit[k].struct : k \in 1 .. Len(unit)} |-> ZeroFilter]
    /\ UNCHANGED <<pasting, unit, ub, writes>>

\* kalman_filter_<name>_init();
CallInit(k) ==
    /\ pc = "running"
    /\ ~ub
    /\ LET call == unit[k].init.body[1]
           a    == call.args
       IN  filters' = [filters EXCEPT ![a[1]] =
                kalman_filter_initialize(a[2], a[3], a[4], a[5], a[6], a[7], a[8], a[9])]
    /\ UNCHANGED <<KALMAN_NAME, KALMAN_NUM_STATES, KALMAN_NUM_INPUTS, defined,
                   pasting, pc, unit, memory, ub, writes>>

\* kalman_filter_<name>.<element>.data[index] = 1;
\* A write past the end of the buffer behind the matrix is undefined: it may
\* land in any element of any buffer.
Write(k, element, index) ==
    /\ pc = "running"
    /\ ~ub
    /\ writes < MaxWrites
    /\ LET kf == filters[unit[k].struct]
           m  == kf[element]
       IN  /\ kf.initialized
           /\ m.data # NullBuffer
           /\ m.rows * m.cols > 0
           /\ index \in {0, m.rows * m.cols - 1}
           /\ IF index < Len(memory[m.data])
              THEN /\ memory' = [memory EXCEPT ![m.data][index + 1] = 1]
                   /\ ub' = FALSE
              ELSE /\ \E b \in DOMAIN memory :
                        \E j \in DOMAIN memory[b] :
                            memory' = [memory EXCEPT ![b][j] = 1]
                   /\ ub' = TRUE
    /\ writes' = writes + 1
    /\ UNCHANGED <<KALMAN_NAME, KALMAN_NUM_STATES, KALMAN_NUM_INPUTS, defined,
                   pasting, pc, unit, filters>>

Next ==
    \/ \E name \in Names : DefineName(name)
    \/ \E n \in Dims : DefineNumStates(n)
    \/ \E n \in Dims : DefineNumInputs(n)
    \/ CheckInputs
    \/ ConstructKalmanFilter
    \/ Cleanup
    \/ Build
    \/ \E k \in 1 .. Len(unit) : CallInit(k)
    \/ \E k \in 1 .. Len(unit) :
            \E element \in Elements :
                \E index \in 0 .. (MaxDim * MaxDim) : Write(k, element, index)

Spec == Init /\ [][Next]_vars

(* ----------------------------- properties ------------------------------ *)

\* rows*cols of each matrix for the given dimensions: A and P are states x
\* states, x is states x 1, B is states x inputs, u is inputs x 1, Q is
\* inputs x inputs.
ShapeCount(element, numStates, numInputs) ==
    CASE element = "A" -> numStates * numStates
      [] element = "P" -> numStates * numStates
      [] element = "x" -> numStates
      [] element = "B" -> numStates * numInputs
      [] element = "u" -> numInputs
      [] element = "Q" -> numInputs * numInputs

\* The three defines are set, KALMAN_NUM_STATES > 0 and KALMAN_NUM_INPUTS >= 0.
ValidRequest ==
    /\ defined = {"KALMAN_NAME", "KALMAN_NUM_STATES", "KALMAN_NUM_INPUTS"}
    /\ KALMAN_NUM_STATES > 0
    /\ KALMAN_NUM_INPUTS >= 0

\* The declaration of the element's buffer in an emitted instance.
BufferOf(inst, element) ==
    { inst.buffers[i] : i \in { j \in DOMAIN inst.buffers : inst.buffers[j].element = element } }

\* C1: every declared buffer of every emitted instance has exactly rows*cols
\* elements of its matrix: A and P numStates*numStates, x numStates, B
\* numStates*numInputs, u numInputs, Q numInputs*numInputs.
C1_BuffersHaveShapeCount ==
    \A k \in 1 .. Len(unit) :
        \A i \in DOMAIN unit[k].buffers :
            unit[k].buffers[i].len =
                ShapeCount(unit[k].buffers[i].element, unit[k].numStates, unit[k].numInputs)

\* The element behind each buffer position of the initializer's call.
ArgumentElement == [p \in 4 .. 9 |->
    CASE p = 4 -> "A" [] p = 5 -> "x" [] p = 6 -> "B"
      [] p = 7 -> "u" [] p = 8 -> "P" [] p = 9 -> "Q"]

\* C7: every real buffer the initializer hands to kalman_filter_initialize
\* has at least the rows*cols elements of the matrix wired onto it, for the
\* numStates and numInputs passed in the same call.
C7_PassedBuffersHoldTheirMatrix ==
    \A k \in 1 .. Len(unit) :
        LET a == unit[k].init.body[1].args
        IN  \A p \in 4 .. 9 :
                a[p] # NullBuffer =>
                    \A b \in { unit[k].buffers[i] : i \in DOMAIN unit[k].buffers } :
                        b.id = a[p] => b.len >= ShapeCount(ArgumentElement[p], a[2], a[3])

\* C2: for every valid request the inclusion succeeds and emits exactly
\* three buffers (A, P, x) when numInputs = 0 and exactly six (A, P, x, B, Q,
\* u) when numInputs > 0, plus one structure and one initializer.
C2_ValidRequestIsGenerated ==
    [][ /\ (pc = "source" /\ pc' # "source" /\ pc' # "running" /\ ValidRequest)
                => pc' = "validated"
        /\ pc = "validated" =>
            /\ Len(unit') = Len(unit) + 1
            /\ SubSeq(unit', 1, Len(unit)) = unit
            /\ LET inst == unit'[Len(unit')]
                   tags == [i \in DOMAIN inst.buffers |-> inst.buffers[i].element]
               IN  /\ inst.numInputs = 0 => tags = <<"A", "P", "x">>
                   /\ inst.numInputs > 0 => tags = <<"A", "P", "x", "B", "Q", "u">>
                   /\ inst.struct # NullBuffer
                   /\ inst.init.id # inst.struct ]_vars

\* C3: an inclusion is rejected, with nothing emitted, whenever one of the
\* three defines is missing or KALMAN_NUM_STATES <= 0 or KALMAN_NUM_INPUTS <
\* 0, and it is rejected in no other case.
C3_RejectedExactlyOnBadRequest ==
    [][ /\ (pc = "source" /\ pc' # "source" /\ pc' # "running" /\ ~ValidRequest)
                => (pc' = "halted" /\ unit' = unit)
        /\ (pc # "halted" /\ pc' = "halted") => (~ValidRequest /\ unit' = unit)
        /\ Len(unit') > Len(unit) => ValidRequest ]_vars

\* The lifecycle position of the k-th generation request of the unit.
Phase(k) ==
    IF k <= Len(unit)
    THEN IF pc = "running" /\ filters[unit[k].struct].initialized
         THEN "Initialized" ELSE "Declared"
    ELSE IF k = Len(unit) + 1 /\ pc = "source" THEN "Unvalidated"
    ELSE IF k = Len(unit) + 1 /\ pc = "validated" THEN "Validated"
    ELSE IF k = Len(unit) + 1 /\ pc = "halted" THEN "Rejected"
    ELSE "None"

\* The steps the lifecycle allows.
LifecycleSteps ==
    { <<"Unvalidated", "Validated">>, <<"Unvalidated", "Rejected">>,
      <<"Validated", "Declared">>, <<"Declared", "Initialized">>,
      <<"None", "Unvalidated">>, <<"Unvalidated", "None">> }

\* C10: every request moves forward only, Unvalidated -> Validated ->
\* Declared -> Initialized; Rejected is entered from Unvalidated only and is
\* never left; a validated request is always declared next; Initialized is
\* entered from Declared only and never left; an emitted instance keeps its
\* name and dimensions.
C10_LifecycleMovesForward ==
    [][ \A k \in 1 .. MaxInstances + 1 :
            /\ Phase(k)' # Phase(k) => <<Phase(k), Phase(k)'>> \in LifecycleSteps
            /\ k <= Len(unit) =>
                    /\ k <= Len(unit')
                    /\ unit'[k].name = unit[k].name
                    /\ unit'[k].numStates = unit[k].numStates
                    /\ unit'[k].numInputs = unit[k].numInputs ]_vars

\* C4 as stated: the identifiers of two emitted instances with distinct
\* names never coincide.
C4_DistinctNamesDisjoint ==
    \A k, l \in 1 .. Len(unit) :
        unit[k].name # unit[l].name =>
            DeclaredIdentifiers(unit[k]) \cap DeclaredIdentifiers(unit[l]) = {}

\* What the name macros append to the base name of an instance.
Suffixes == {"_init"} \cup { "_" \o e \o "_buffer" : e \in Elements }

\* One name is the other followed by a suffix of the naming scheme.
Extends(n1, n2) == \E suffix \in Suffixes : n1 = n2 \o suffix

\* C4 (amended): the identifiers of two emitted instances with distinct names
\* never coincide, provided neither name is the other name followed by
\* "_init" or by "_<element>_buffer".
C4_UnextendedNamesDisjoint ==
    \A k, l \in 1 .. Len(unit) :
        ( /\ unit[k].name # unit[l].name
          /\ ~Extends(unit[k].name, unit[l].name)
          /\ ~Extends(unit[l].name, unit[k].name) ) =>
            DeclaredIdentifiers(unit[k]) \cap DeclaredIdentifiers(unit[l]) = {}

\* Two instances with inputs, named "b" and "a_init", were emitted.
C4_Witness ==
    /\ Len(unit) = 2
    /\ {unit[1].name, unit[2].name} = {"b", "a_init"}
    /\ unit[1].numInputs > 0
    /\ unit[2].numInputs > 0

\* C5: an instance emitted with numInputs = 0 declares buffers for A, P and x
\* only; the B, u and Q positions of the initializer's call hold the null
\* sentinel, the A, x and P positions hold declared buffers.
C5_NoInputsPassSentinel ==
    \A k \in 1 .. Len(unit) :
        unit[k].numInputs = 0 =>
            LET a   == unit[k].init.body[1].args
                ids == { unit[k].buffers[i].id : i \in DOMAIN unit[k].buffers }
            IN  /\ BufferOf(unit[k], "B") = {}
                /\ BufferOf(unit[k], "Q") = {}
                /\ BufferOf(unit[k], "u") = {}
                /\ a[6] = NullBuffer /\ a[7] = NullBuffer /\ a[9] = NullBuffer
                /\ {a[4], a[5], a[8]} \subseteq ids
                /\ NullBuffer \notin ids
                /\ Cardinality(ids) = 3

\* An instance without inputs was emitted after one with inputs.
C5_Witness ==
    /\ Len(unit) = 2
    /\ unit[1].numInputs > 0
    /\ unit[2].numInputs = 0

\* The identifier the naming scheme gives the element's buffer of a name.
ExpectedBuffer(name, element) == "kalman_filter_" \o name \o "_" \o element \o "_buffer"

\* C6: the initializer has no parameters and its body is one call of
\* kalman_filter_initialize with, in this order, the instance's structure,
\* numStates, numInputs and its A, x, B, u, P, Q references; the references
\* that are not the sentinel are pairwise distinct buffers declared by this
\* instance, and in a built program none is a buffer of another instance.
C6_InitializerCall ==
    \A k \in 1 .. Len(unit) :
        LET f    == unit[k].init
            a    == f.body[1].args
            n    == unit[k].name
            ref(e) == IF e \in {"B", "u", "Q"} /\ unit[k].numInputs = 0
                      THEN NullBuffer ELSE ExpectedBuffer(n, e)
            real == { p \in 4 .. 9 : a[p] # NullBuffer }
        IN  /\ f.params = << >>
            /\ Len(f.body) = 1
            /\ f.body[1].callee = "kalman_filter_initialize"
            /\ a = << unit[k].struct, unit[k].numStates, unit[k].numInputs,
                      ref("A"), ref("x"), ref("B"), ref("u"), ref("P"), ref("Q") >>
            /\ \A p, q \in real : p # q => a[p] # a[q]
            /\ \A p \in real :
                    \E i \in DOMAIN unit[k].buffers :
                        /\ unit[k].buffers[i].element = ArgumentElement[p]
                        /\ unit[k].buffers[i].id = a[p]
            /\ pc = "running" =>
                    \A l \in 1 .. Len(unit) : \A p \in real :
                        l # k => a[p] \notin DeclaredIdentifiers(unit[l])

\* Two instances, one of them with inputs, run and both were initialized.
C6_Witness ==
    /\ pc = "running"
    /\ Len(unit) = 2
    /\ unit[1].numInputs > 0
    /\ unit[2].numInputs = 0
    /\ \A k \in 1 .. 2 : filters[unit[k].struct].initialized

\* C8: every identifier an instance declares is "kalman_filter_" + name for
\* the structure, that + "_" + element + "_buffer" for a buffer and that +
\* "_init" for the initializer, whatever was emitted before it; instances
\* emitted under the same name declare the same identifiers.
C8_IdentifiersFollowScheme ==
    \A k \in 1 .. Len(unit) :
        LET n == unit[k].name
        IN  /\ unit[k].struct = "kalman_filter_" \o n
            /\ unit[k].init.id = "kalman_filter_" \o n \o "_init"
            /\ \A i \in DOMAIN unit[k].buffers :
                    unit[k].buffers[i].id = ExpectedBuffer(n, unit[k].buffers[i].element)
            /\ \A l \in 1 .. Len(unit) :
                    unit[l].name = n =>
                        /\ unit[l].struct = unit[k].struct
                        /\ unit[l].init.id = unit[k].init.id
                        /\ \A i \in DOMAIN unit[k].buffers :
                                \A j \in DOMAIN unit[l].buffers :
                                    unit[l].buffers[j].element = unit[k].buffers[i].element
                                        => unit[l].buffers[j].id = unit[k].buffers[i].id

\* The name "a" was generated a second time, after another instance.
C8_Witness ==
    /\ Len(unit) = 2
    /\ unit[1].name = "a"
    /\ unit[2].name = "a"
    /\ unit[2].numInputs > 0

\* The matrices of initialized structures that have a buffer behind them.
WiredMatrices ==
    { v \in (DOMAIN filters) \X Elements :
        filters[v[1]].initialized /\ filters[v[1]][v[2]].data # NullBuffer }

\* C9, after the initializer call: the structure of an initialized instance
\* reports the numStates and numInputs the instance was emitted with, and its
\* state vector has numStates elements over a buffer of that many elements.
C9_ReportsDimensions ==
    \A k \in 1 .. Len(unit) :
        (pc = "running" /\ filters[unit[k].struct].initialized) =>
            LET kf == filters[unit[k].struct]
            IN  /\ kf.numStates = unit[k].numStates
                /\ kf.numInputs = unit[k].numInputs
                /\ kf.x.rows * kf.x.cols = unit[k].numStates
                /\ kf.x.data \in DOMAIN memory
                /\ Len(memory[kf.x.data]) = unit[k].numStates

\* C9, the write: a write to an element of a buffer changes that buffer
\* alone, and the matrix written through is the only matrix of any instance
\* that sees the change.
C9_WriteChangesOneBuffer ==
    (pc = "running" /\ memory' # memory /\ ~ub') =>
        LET changed == { b \in DOMAIN memory : memory'[b] # memory[b] }
        IN  /\ DOMAIN memory' = DOMAIN memory
            /\ Cardinality(changed) = 1
            /\ Cardinality({ v \in WiredMatrices :
                                filters[v[1]][v[2]].data \in changed }) = 1

\* C9: after generation and the initializer call the structure reports the
\* instance's dimensions and a state vector of numStates elements, and a
\* write to an element of one buffer leaves every other buffer of the
\* instance and of every other instance unchanged.
C9_InitializedAndIsolated ==
    []C9_ReportsDimensions /\ [][C9_WriteChangesOneBuffer]_vars

\* Two initialized instances, the first without inputs, and the first
\* element of the first instance's state vector was written.
C9_Witness ==
    /\ pc = "running"
    /\ Len(unit) = 2
    /\ unit[1].numInputs = 0
    /\ \A k \in 1 .. 2 : filters[unit[k].struct].initialized
    /\ ~ub
    /\ memory[filters[unit[1].struct].x.data][1] = 1

====
